---------------------------- MODULE Spec2Model ----------------------------
(***************************************************************************)
(* A model of the TubeMap React component of TrackTheTube.Client           *)
(* (src/TrackTheTube.Client/src/components/TubeMap.tsx): its three pieces  *)
(* of useState state, its three effects (animation clock, line data load,  *)
(* station data load), the layer list computed by every render, and the    *)
(* pure helpers getLineColor, getRgbColourStringForText and getTooltip.    *)
(***************************************************************************)
EXTENDS Integers, Sequences, FiniteSets, TLC

(***************************************************************************)
(* Bounds of the model.                                                    *)
(***************************************************************************)
\* loop lengths offered to the component are 2, 4, .., 2 * MaxHalfLoop
MaxHalfLoop == 2
\* animation frames advance the clock by 1 .. MaxDelta time steps
MaxDelta == 2
\* fetches that may be in flight at once, per dataset
MaxPending == 2
\* animations one component instance may create
MaxAnimations == 2
\* serving lines of a hit-tested feature
MaxLines == 2

(***************************************************************************)
(* Values.                                                                 *)
(***************************************************************************)
\* an optional prop that is not passed is undefined
Undefined == "undefined"
\* useState<TubeLineData | null>(null)
Null == "null"
\* inline datasets a caller may pass: two distinct object references
InlineData == {"A", "B"}
\* the dataset a successful fetch of the fixed URL parses to
Fetched == "F"
LoopLengths == {2 * k : k \in 1..MaxHalfLoop}
AnimationSpeeds == {60, 120}

\* JavaScript truthiness of a dataset value: objects are truthy,
\* undefined and null are falsy
Truthy(v) == v # Undefined /\ v # Null

VARIABLES
    phase,          \* "init" (first render done, effects not yet run),
                    \* "mounted", "unmounted"
    props,          \* the props of the last render
    time,           \* useState(0)
    tubeLines,      \* useState<TubeLineData | null>(null)
    tubeStations,   \* useState<TubeStationData | null>(null)
    layers,         \* the layer list built by the last render
    clockDeps,      \* the dependency arrays React recorded at the last
    lineDeps,       \*   run of each effect
    stationDeps,
    animation,      \* id of the animation the clock effect's cleanup closes over
    running,        \* the animations that have not been stopped
    nextAnim,       \* next animation id
    linePending,    \* line fetches in flight
    stationPending, \* station fetches in flight
    lineFetches,    \* line fetches issued since the tubeLineData reference last changed
    stationFetches, \* the same for stations
    lineRejected,   \* a line fetch has been rejected
    stationRejected,
    uncaught,       \* a promise rejection escaped the component
    lastUpdater,    \* id of the animation whose onUpdate ran last
    lastOp,         \* the handler that ran last
    owner,          \* id of the layer that produced the hit handed to getTooltip
    object,         \* the hit-tested object handed to getTooltip / getLineColor
    tooltip,        \* what getTooltip returned (or threw)
    colour,         \* what getLineColor returned
    pc              \* "idle", "hit" (a hit is at hand), "tooltip", "colour"

vars == <<phase, props, time, tubeLines, tubeStations, layers, clockDeps,
          lineDeps, stationDeps, animation, running, nextAnim, linePending,
          stationPending, lineFetches, stationFetches, lineRejected,
          stationRejected, uncaught, lastUpdater, lastOp,
          owner, object, tooltip, colour, pc>>

\* the variables of the hit under the pointer
pure == <<owner, object, tooltip, colour, pc>>

(***************************************************************************)
(* The render: the layer list.                                             *)
(***************************************************************************)
LineLayers(data) ==
    << [id |-> "tube-lines-border", data |-> data, pickable |-> FALSE],
       [id |-> "tube-lines-main", data |-> data, pickable |-> TRUE] >>

StationLayers(data) ==
    << [id |-> "tube-stations", data |-> data, pickable |-> TRUE] >>

TripsLayer(currentTime) ==
    [id |-> "trips", currentTime |-> currentTime]

\* the layer list with the station spread written before the line spread
LayersStationsFirst(p, t, lines, stations) ==
    (IF p.showTubeStations /\ Truthy(stations) THEN StationLayers(stations) ELSE << >>)
    \o (IF p.showTubeLines /\ Truthy(lines) THEN LineLayers(lines) ELSE << >>)
    \o << TripsLayer(t) >>

\* the layer list with the spreads testing the datasets only
LayersIgnoringFlags(p, t, lines, stations) ==
    (IF Truthy(lines) THEN LineLayers(lines) ELSE << >>)
    \o (IF Truthy(stations) THEN StationLayers(stations) ELSE << >>)
    \o << TripsLayer(t) >>

\* const layers = [...(showTubeLines && tubeLines ? [border, main] : []),
\*                 ...(showTubeStations && tubeStations ? [stations] : []), trips]
Layers(p, t, lines, stations) ==
    (IF p.showTubeLines /\ Truthy(lines) THEN LineLayers(lines) ELSE << >>)
    \o (IF p.showTubeStations /\ Truthy(stations) THEN StationLayers(stations) ELSE << >>)
    \o << TripsLayer(t) >>

LayerIds(ls) == [i \in 1..Len(ls) |-> ls[i].id]

HasLayer(ls, id) == \E i \in 1..Len(ls) : ls[i].id = id

(***************************************************************************)
(* The effects.                                                            *)
(***************************************************************************)
\* an effect written without its dependency array runs after every render
DepsAlwaysChanged(prev, next) == TRUE

\* React re-runs an effect when an entry of its dependency array differs
\* (Object.is) from the one recorded at its last run
DepsChanged(prev, next) == prev # next

\* the duration with its factors swapped
DurationSwapped(loopLength, animationSpeed) == (loopLength * animationSpeed) \div 60

\* duration: (loopLength * 60) / animationSpeed
Duration(loopLength, animationSpeed) == (loopLength * 60) \div animationSpeed

\* animate({from: 0, to: loopLength, duration, repeat: Infinity, onUpdate})
Animate(id, p) ==
    [id |-> id, to |-> p.loopLength,
     duration |-> Duration(p.loopLength, p.animationSpeed), elapsed |-> 0]

\* The value the animation hands to onUpdate at `elapsed`.  The animation
\* library is not part of the repository: its interpolation between from: 0
\* and to: loopLength over `duration` is taken to be linear.
ValueAt(a, elapsed) == (a.to * elapsed) \div a.duration

\* a clock effect that returns no cleanup
CleanupLeak(id, anims) == anims

\* return () => animation.stop(): the animations left running.  A stopped
\* animation calls onUpdate no more.
Cleanup(id, anims) == {a \in anims : a.id # id}

\* the body of a data load effect: what it stores and whether it fetches
LoadEffect(data, stored) ==
    IF Truthy(data)
    THEN [stored |-> data, fetch |-> 0]
    ELSE [stored |-> stored, fetch |-> 1]

\* a data load effect under React's dependency check
RunLoad(deps, data, stored) ==
    IF DepsChanged(deps, <<data>>)
    THEN LoadEffect(data, stored)
    ELSE [stored |-> stored, fetch |-> 0]

\* the state a handler hands to the next render
Current ==
    [time |-> time, tubeLines |-> tubeLines, tubeStations |-> tubeStations,
     running |-> running, linePending |-> linePending,
     stationPending |-> stationPending]

\* A render with props p and state s, followed by the effects whose
\* dependencies changed.  A setState made by an effect renders again; the
\* layer list is that of the last render.
Commit(p, s) ==
    LET clockRuns == DepsChanged(clockDeps, <<p.loopLength, p.animationSpeed>>)
        le == RunLoad(lineDeps, p.tubeLineData, s.tubeLines)
        se == RunLoad(stationDeps, p.tubeStationData, s.tubeStations)
    IN  /\ props' = p
        /\ time' = s.time
        /\ clockDeps' = <<p.loopLength, p.animationSpeed>>
        /\ IF clockRuns
           THEN /\ running' = Cleanup(animation, s.running) \cup {Animate(nextAnim, p)}
                /\ animation' = nextAnim
                /\ nextAnim' = nextAnim + 1
           ELSE /\ running' = s.running
                /\ UNCHANGED <<animation, nextAnim>>
        /\ lineDeps' = <<p.tubeLineData>>
        /\ tubeLines' = le.stored
        /\ linePending' = s.linePending + le.fetch
        /\ lineFetches' = (IF p.tubeLineData # props.tubeLineData
                           THEN 0 ELSE lineFetches) + le.fetch
        /\ stationDeps' = <<p.tubeStationData>>
        /\ tubeStations' = se.stored
        /\ stationPending' = s.stationPending + se.fetch
        /\ stationFetches' = (IF p.tubeStationData # props.tubeStationData
                              THEN 0 ELSE stationFetches) + se.fetch
        /\ layers' = Layers(p, s.time, le.stored, se.stored)

\* the state variables a render and its effects may change
rendered == <<props, time, tubeLines, tubeStations, layers, clockDeps, lineDeps,
              stationDeps, animation, nextAnim, lineFetches, stationFetches>>

\* the renders the model explores: those that keep the number of animations
\* created and of fetches in flight within the bounds
WithinBounds(p) ==
    /\ DepsChanged(clockDeps, <<p.loopLength, p.animationSpeed>>) => nextAnim <= MaxAnimations
    /\ ~Truthy(p.tubeLineData) /\ p.tubeLineData # props.tubeLineData
         => linePending < MaxPending
    /\ ~Truthy(p.tubeStationData) /\ p.tubeStationData # props.tubeStationData
         => stationPending < MaxPending

(***************************************************************************)
(* JavaScript values, as far as the helpers below look at them.            *)
(***************************************************************************)
JsUndefined == [t |-> "undefined"]
JsNull == [t |-> "null"]
Str(s) == [t |-> "string", v |-> s]
Num(n) == [t |-> "number", v |-> n]
Obj(fields) == [t |-> "object", v |-> fields]
Arr(elements) == [t |-> "array", v |-> elements]
\* a function inherited from Object.prototype
Fn(name) == [t |-> "function", v |-> name]
\* the outcome of an evaluation that throws a TypeError
TypeError == [t |-> "TypeError"]

Nullish(x) == x.t \in {"undefined", "null"}

\* ToBoolean, as applied by &&, || and if
ToBoolean(x) ==
    CASE Nullish(x) -> FALSE
      [] x.t = "string" -> x.v # ""
      [] x.t = "number" -> x.v # 0
      [] OTHER -> TRUE

\* o.k for an o that is neither null nor undefined
Get(o, k) ==
    IF o.t = "object" /\ k \in DOMAIN o.v THEN o.v[k] ELSE JsUndefined

\* a[i] for an a that is neither null nor undefined
At(a, i) ==
    IF a.t = "array" /\ i < Len(a.v) THEN a.v[i + 1] ELSE JsUndefined

\* a || b
Or(a, b) == IF ToBoolean(a) THEN a ELSE b

\* String(x), as applied by a template literal
ToStr(x) ==
    CASE x.t = "string" -> x.v
      [] x.t = "number" -> ToString(x.v)
      [] x.t = "undefined" -> "undefined"
      [] x.t = "null" -> "null"

(***************************************************************************)
(* getLineColor and getRgbColourStringForText.                             *)
(***************************************************************************)
\* the own properties of the lineColours object literal
lineColours ==
    [n \in {"London Overground", "Central", "Piccadilly", "Northern",
            "Metropolitan", "District", "Circle", "Hammersmith & City",
            "Bakerloo", "Jubilee", "Victoria", "Waterloo & City",
            "Elizabeth line", "DLR"} |->
        CASE n = "London Overground" -> <<255, 136, 0, 100>>
          [] n = "Central" -> <<220, 36, 31, 100>>
          [] n = "Piccadilly" -> <<0, 25, 168, 100>>
          [] n = "Northern" -> <<0, 0, 0, 255>>
          [] n = "Metropolitan" -> <<155, 0, 88, 100>>
          [] n = "District" -> <<0, 125, 50, 100>>
          [] n = "Circle" -> <<255, 206, 0, 100>>
          [] n = "Hammersmith & City" -> <<244, 169, 190, 100>>
          [] n = "Bakerloo" -> <<137, 78, 36, 100>>
          [] n = "Jubilee" -> <<161, 165, 167, 100>>
          [] n = "Victoria" -> <<0, 152, 216, 100>>
          [] n = "Waterloo & City" -> <<147, 206, 186, 100>>
          [] n = "Elizabeth line" -> <<147, 100, 204, 100>>
          [] n = "DLR" -> <<0, 175, 173, 100>>]

\* what an object literal inherits from Object.prototype: every one a function
ObjectPrototypeKeys ==
    {"constructor", "hasOwnProperty", "isPrototypeOf", "propertyIsEnumerable",
     "toLocaleString", "toString", "valueOf"}

\* lineColours[lineName]: an own property, else an inherited one, else undefined
LineColoursAt(key) ==
    IF key \in DOMAIN lineColours THEN Arr(lineColours[key])
    ELSE IF key \in ObjectPrototypeKeys THEN Fn(key)
    ELSE JsUndefined

\* const lineName = feature.properties?.lines?.[0]?.name || ''
FirstLineName(feature) ==
    LET properties == Get(feature, "properties")
        lines == IF Nullish(properties) THEN JsUndefined ELSE Get(properties, "lines")
        first == IF Nullish(lines) THEN JsUndefined ELSE At(lines, 0)
        name == IF Nullish(first) THEN JsUndefined ELSE Get(first, "name")
    IN  Or(name, Str(""))

getLineColor(feature) ==
    Or(LineColoursAt(ToStr(FirstLineName(feature))), Arr(<<255, 255, 255, 10>>))

\* colour[i] of what getLineColor returned, in a template literal
Channel(c, i) ==
    IF c.t = "array" THEN ToString(c.v[i + 1]) ELSE "undefined"

getRgbColourStringForText(lineName) ==
    IF lineName = Str("Northern")
    THEN "rgb(255, 255, 255)"
    ELSE LET c == getLineColor(
                    Obj([properties |-> Obj([lines |-> Arr(<<Obj([name |-> lineName])>>)])]))
         IN  "rgb(" \o Channel(c, 0) \o ", " \o Channel(c, 1) \o ", "
                    \o Channel(c, 2) \o ")"

(***************************************************************************)
(* getTooltip.  The html string is kept as the template used and the       *)
(* values interpolated into it.                                            *)
(***************************************************************************)
TooltipStyle == [fontSize |-> "12px", fontFamily |-> "Arial, sans-serif"]

Payload(html) == [t |-> "tooltip", html |-> html, style |-> TooltipStyle]

\* the template of the line tooltip
LineHtml(obj) ==
    LET line == At(Get(Get(obj, "properties"), "lines"), 0)
    IN  IF Nullish(line)
        THEN TypeError
        ELSE Payload([template |-> "line",
                      strong |-> ToStr(Get(line, "name")),
                      opened |-> ToStr(Or(Get(line, "opened"), Str("N/A"))),
                      lineId |-> ToStr(Get(Get(obj, "properties"), "id"))])

\* one span of linesHtml
Span(line) ==
    [color |-> getRgbColourStringForText(Get(line, "name")),
     text |-> ToStr(Get(line, "name"))]

\* the template of the station tooltip; the spans are joined by <br/>
StationHtml(obj) ==
    LET stationName == Get(Get(obj, "properties"), "name")
        stationLines == Get(Get(obj, "properties"), "lines")
    IN  IF stationLines.t # "array"
        THEN TypeError
        ELSE Payload([template |-> "station",
                      strong |-> ToStr(stationName),
                      spans |-> [i \in 1..Len(stationLines.v) |-> Span(stationLines.v[i])]])

\* object.geometry.type === type, which throws when geometry is undefined
GeometryTypeIs(obj, type) ==
    IF Nullish(Get(obj, "geometry"))
    THEN TypeError
    ELSE IF Get(Get(obj, "geometry"), "type") = Str(type) THEN Str("true") ELSE Str("")

\* the station branch of getTooltip and the final return null
StationBranch(obj) ==
    IF ~ToBoolean(Get(Get(obj, "properties"), "name"))
    THEN JsNull
    ELSE LET isPoint == GeometryTypeIs(obj, "Point")
         IN  IF isPoint = TypeError THEN TypeError
             ELSE IF ToBoolean(isPoint) THEN StationHtml(obj)
             ELSE JsNull

\* whether the conjunction before the geometry test of the line branch holds:
\* object.layer && object.layer.id === 'tube-lines-main' && object.properties.lines
LineGuard(obj) ==
    /\ ToBoolean(Get(obj, "layer"))
    /\ Get(Get(obj, "layer"), "id") = Str("tube-lines-main")
    /\ ToBoolean(Get(Get(obj, "properties"), "lines"))

getTooltip(obj) ==
    IF ~(ToBoolean(obj) /\ ToBoolean(Get(obj, "properties")))
    THEN JsNull
    ELSE IF LineGuard(obj)
    THEN LET isPoint == GeometryTypeIs(obj, "Point")
         IN  IF isPoint = TypeError THEN TypeError
             ELSE IF ~ToBoolean(isPoint) THEN LineHtml(obj)
             ELSE StationBranch(obj)
    ELSE StationBranch(obj)

(***************************************************************************)
(* The hits the model hands to getTooltip and getLineColor.                *)
(***************************************************************************)
\* the layers built with pickable: true
PickableLayers == {"tube-lines-main", "tube-stations"}

LineNames ==
    DOMAIN lineColours \cup {"", "Unknown Line", "constructor", "toString"}

\* an element of properties.lines; opened is optional
Line(n) ==
    IF n \in {"Central", "Victoria"}
    THEN Obj([name |-> Str(n), opened |-> Num(1900)])
    ELSE Obj([name |-> Str(n)])

\* lists of up to MaxLines serving lines
ServingLines ==
    UNION {[1..k -> {Line("Central"), Line("Northern")}] : k \in 2..MaxLines}

LinesValues ==
    {JsUndefined, Arr(<< >>)} \cup {Arr(<<Line(n)>>) : n \in LineNames}
        \cup {Arr(l) : l \in ServingLines}

\* a record of the present ones among the optional fields
Fields(all) == [k \in {f \in DOMAIN all : all[f] # JsUndefined} |-> all[k]]

PropertiesValues ==
    {JsUndefined} \cup
    {Obj(Fields([id |-> Str("f1"), name |-> n, lines |-> l])) :
        n \in {JsUndefined, Str(""), Str("Bank")}, l \in LinesValues}

GeometryValues ==
    {JsUndefined, Obj([type |-> Str("Point")]), Obj([type |-> Str("LineString")])}

\* the objects a layer `id` may report: null (nothing under the pointer) or a
\* feature, which carries a layer field only if the engine tagged it with
\* the layer that owns it
Features(id) ==
    {JsNull} \cup
    {Obj(Fields([type |-> Str("Feature"), layer |-> y, properties |-> q, geometry |-> g])) :
        y \in {JsUndefined, Obj([id |-> Str(id)])},
        q \in PropertiesValues, g \in GeometryValues}

(***************************************************************************)
(* Initial states: the component function has run once with some props,    *)
(* every useState holds its initial value and no effect has run yet.       *)
(***************************************************************************)
PropsSpace ==
    [tubeLineData : {Undefined} \cup InlineData,
     tubeStationData : {Undefined} \cup InlineData,
     showTubeLines : BOOLEAN,
     showTubeStations : BOOLEAN,
     loopLength : LoopLengths,
     animationSpeed : AnimationSpeeds]

InitWith(P) ==
    /\ phase = "init"
    /\ props \in P
    /\ time = 0
    /\ tubeLines = Null
    /\ tubeStations = Null
    /\ layers = Layers(props, 0, Null, Null)
    /\ clockDeps = << >>
    /\ lineDeps = << >>
    /\ stationDeps = << >>
    /\ animation = 0
    /\ running = {}
    /\ nextAnim = 1
    /\ linePending = 0
    /\ stationPending = 0
    /\ lineFetches = 0
    /\ stationFetches = 0
    /\ lineRejected = FALSE
    /\ stationRejected = FALSE
    /\ uncaught = FALSE
    /\ lastUpdater = 0
    /\ lastOp = "render"
    /\ owner = "tube-lines-main"
    /\ object = JsNull
    /\ tooltip = JsNull
    /\ colour = JsUndefined
    /\ pc = "idle"

\* the initial props of Spec: any data props and flags, one clock setting
DataProps ==
    {p \in PropsSpace : p.loopLength = 2 /\ p.animationSpeed = 60}

Init == InitWith(DataProps)

(***************************************************************************)
(* The handlers.                                                           *)
(***************************************************************************)
\* the first commit: every effect runs
Mount ==
    /\ phase = "init"
    /\ phase' = "mounted"
    /\ Commit(props, Current)
    /\ lastOp' = "mount"
    /\ UNCHANGED <<lineRejected, stationRejected, uncaught, lastUpdater>>
    /\ UNCHANGED pure

\* the parent renders the component with new props
SetProps(p) ==
    /\ phase = "mounted"
    /\ p # props
    /\ WithinBounds(p)
    /\ Commit(p, Current)
    /\ lastOp' = "props"
    /\ UNCHANGED <<phase, lineRejected, stationRejected, uncaught, lastUpdater>>
    /\ UNCHANGED pure

\* new tubeLineData / tubeStationData references
SetDataProps ==
    \E l, s \in {Undefined} \cup InlineData :
        SetProps([props EXCEPT !.tubeLineData = l, !.tubeStationData = s])

\* new showTubeLines / showTubeStations flags
SetFlags ==
    \E l, s \in BOOLEAN :
        SetProps([props EXCEPT !.showTubeLines = l, !.showTubeStations = s])

\* new loopLength / animationSpeed
SetClockProps ==
    \E l \in LoopLengths, s \in AnimationSpeeds :
        SetProps([props EXCEPT !.loopLength = l, !.animationSpeed = s])

\* an animation frame of a running animation: onUpdate: setTime.  After
\* `duration` the animation starts over (repeat: Infinity).  React drops a
\* setState of an unmounted component.
Tick ==
    /\ \E a \in running, delta \in 1..MaxDelta :
        LET e == (a.elapsed + delta) % a.duration
            anims == (running \ {a}) \cup {[a EXCEPT !.elapsed = e]}
        IN  /\ lastUpdater' = a.id
            /\ lastOp' = "tick"
            /\ IF phase = "mounted"
               THEN Commit(props, [Current EXCEPT !.time = ValueAt(a, e),
                                                  !.running = anims])
               ELSE /\ running' = anims
                    /\ UNCHANGED <<rendered, linePending, stationPending>>
            /\ UNCHANGED <<phase, lineRejected, stationRejected, uncaught>>
    /\ UNCHANGED pure

\* .then((response) => response.json()).then((data) => setTubeLines(data))
ResolveLines ==
    /\ linePending > 0
    /\ lastOp' = "resolveLines"
    /\ IF phase = "mounted"
       THEN Commit(props, [Current EXCEPT !.tubeLines = Fetched,
                                          !.linePending = @ - 1])
       ELSE /\ linePending' = linePending - 1
            /\ UNCHANGED <<rendered, running, stationPending>>
    /\ UNCHANGED <<phase, lineRejected, stationRejected, uncaught, lastUpdater>>
    /\ UNCHANGED pure

ResolveStations ==
    /\ stationPending > 0
    /\ lastOp' = "resolveStations"
    /\ IF phase = "mounted"
       THEN Commit(props, [Current EXCEPT !.tubeStations = Fetched,
                                          !.stationPending = @ - 1])
       ELSE /\ stationPending' = stationPending - 1
            /\ UNCHANGED <<rendered, running, linePending>>
    /\ UNCHANGED <<phase, lineRejected, stationRejected, uncaught, lastUpdater>>
    /\ UNCHANGED pure

\* a catch handler that also resets the dataset: setTubeLines(null)
RejectLinesClear ==
    /\ linePending > 0
    /\ lastOp' = "rejectLines"
    /\ lineRejected' = TRUE
    /\ IF phase = "mounted"
       THEN Commit(props, [Current EXCEPT !.tubeLines = Null,
                                          !.linePending = @ - 1])
       ELSE /\ linePending' = linePending - 1
            /\ UNCHANGED <<rendered, running, stationPending>>
    /\ UNCHANGED <<phase, stationRejected, uncaught, lastUpdater>>
    /\ UNCHANGED pure

\* the fetch rejects, or response.json() rejects on a body that does not
\* parse: .catch((error) => console.error(...)) logs and sets nothing
RejectLines ==
    /\ linePending > 0
    /\ linePending' = linePending - 1
    /\ lastOp' = "rejectLines"
    /\ lineRejected' = TRUE
    /\ UNCHANGED <<rendered, phase, running, stationPending, stationRejected,
                   uncaught, lastUpdater>>
    /\ UNCHANGED pure

RejectStations ==
    /\ stationPending > 0
    /\ stationPending' = stationPending - 1
    /\ lastOp' = "rejectStations"
    /\ stationRejected' = TRUE
    /\ UNCHANGED <<rendered, phase, running, linePending, lineRejected,
                   uncaught, lastUpdater>>
    /\ UNCHANGED pure

\* React unmounts the component: the clock effect's cleanup runs (the data
\* effects return none)
Unmount ==
    /\ phase = "mounted"
    /\ phase' = "unmounted"
    /\ running' = Cleanup(animation, running)
    /\ lastOp' = "unmount"
    /\ UNCHANGED <<rendered, linePending, stationPending, lineRejected,
                   stationRejected, uncaught, lastUpdater>>
    /\ UNCHANGED pure

(***************************************************************************)
(* Specifications.  Spec exercises the data loaders and the layer list     *)
(* under a clock with fixed loopLength and animationSpeed; SpecClock       *)
(* exercises the clock under changing loopLength and animationSpeed, with  *)
(* fetched line data and inline station data.                              *)
(***************************************************************************)
Next ==
    \/ Mount
    \/ SetDataProps
    \/ SetFlags
    \/ Tick
    \/ ResolveLines
    \/ ResolveStations
    \/ RejectLines
    \/ RejectStations
    \/ Unmount

Spec == Init /\ [][Next]_vars

ClockProps ==
    {p \in PropsSpace : /\ p.tubeLineData = Undefined
                        /\ p.tubeStationData \in InlineData
                        /\ p.showTubeLines /\ p.showTubeStations}

InitClock == InitWith(ClockProps)

NextClock ==
    \/ Mount
    \/ SetClockProps
    \/ Tick
    \/ ResolveLines
    \/ RejectLines
    \/ Unmount

SpecClock == InitClock /\ [][NextClock]_vars

(***************************************************************************)
(* SpecPure: the helpers applied to a hit.                                 *)
(***************************************************************************)
\* the pointer comes to rest on a pickable layer
Hit ==
    /\ pc = "idle"
    /\ \E id \in PickableLayers :
          /\ owner' = id
          /\ object' \in Features(id)
    /\ pc' = "hit"
    /\ UNCHANGED <<tooltip, colour>>
    /\ UNCHANGED <<phase, rendered, running, linePending, stationPending,
                   lineRejected, stationRejected, uncaught, lastUpdater, lastOp>>

\* getTooltip={({ object }) => ...}
ApplyGetTooltip ==
    /\ pc = "hit"
    /\ tooltip' = getTooltip(object)
    /\ pc' = "tooltip"
    /\ UNCHANGED <<owner, object, colour>>
    /\ UNCHANGED <<phase, rendered, running, linePending, stationPending,
                   lineRejected, stationRejected, uncaught, lastUpdater, lastOp>>

\* getLineColor: getLineColor, the accessor the engine calls on a feature
ApplyGetLineColor ==
    /\ pc = "hit"
    /\ object # JsNull
    /\ colour' = getLineColor(object)
    /\ pc' = "colour"
    /\ UNCHANGED <<owner, object, tooltip>>
    /\ UNCHANGED <<phase, rendered, running, linePending, stationPending,
                   lineRejected, stationRejected, uncaught, lastUpdater, lastOp>>

NextPure ==
    \/ Hit
    \/ ApplyGetTooltip
    \/ ApplyGetLineColor

\* the props of a component rendered with its defaults
DefaultProps ==
    {p \in DataProps : /\ p.tubeLineData = Undefined /\ p.tubeStationData = Undefined
                       /\ p.showTubeLines /\ p.showTubeStations}

InitPure == InitWith(DefaultProps)

SpecPure == InitPure /\ [][NextPure]_vars

(***************************************************************************)
(* Properties of the layer list.                                           *)
(***************************************************************************)
\* C1: in every render with both datasets loaded and both flags true the
\* layer list is exactly tube-lines-border, tube-lines-main, tube-stations,
\* trips, in this order; in every render the trips layer is present and last.
C1_LayerOrder ==
    /\ ( /\ tubeLines # Null /\ tubeStations # Null
         /\ props.showTubeLines /\ props.showTubeStations )
       => LayerIds(layers) =
            <<"tube-lines-border", "tube-lines-main", "tube-stations", "trips">>
    /\ Len(layers) >= 1
    /\ layers[Len(layers)].id = "trips"
    /\ \A i \in 1..Len(layers) : layers[i].id = "trips" => i = Len(layers)

C1_Witness ==
    /\ phase = "mounted"
    /\ tubeLines = Fetched /\ tubeStations \in InlineData
    /\ props.showTubeLines /\ props.showTubeStations
    /\ Len(layers) = 4

\* C2: a false flag removes its descriptors whatever the dataset; the two line
\* descriptors come together; a descriptor is present only if its flag is true
\* and its dataset is not null.
C2_FlagsOmitLayers ==
    /\ ~props.showTubeLines =>
          /\ ~HasLayer(layers, "tube-lines-border")
          /\ ~HasLayer(layers, "tube-lines-main")
    /\ ~props.showTubeStations => ~HasLayer(layers, "tube-stations")
    /\ HasLayer(layers, "tube-lines-border") <=> HasLayer(layers, "tube-lines-main")
    /\ HasLayer(layers, "tube-lines-main") => props.showTubeLines /\ tubeLines # Null
    /\ HasLayer(layers, "tube-stations") => props.showTubeStations /\ tubeStations # Null

C2_Witness ==
    /\ phase = "mounted"
    /\ ~props.showTubeLines /\ tubeLines # Null
    /\ ~HasLayer(layers, "tube-lines-main")
    /\ props.showTubeStations /\ HasLayer(layers, "tube-stations")

(***************************************************************************)
(* Properties of the data loaders.                                         *)
(***************************************************************************)
\* C3: per dataset, since the data prop last changed reference (or since the
\* mount) no fetch was issued if inline data is supplied and exactly one if
\* none is, whatever ticks, renders, resolutions and rejections happened.
C3_FetchOncePerReference ==
    phase # "init" =>
        /\ lineFetches = (IF props.tubeLineData = Undefined THEN 1 ELSE 0)
        /\ stationFetches = (IF props.tubeStationData = Undefined THEN 1 ELSE 0)

C3_Witness ==
    /\ phase = "mounted"
    /\ lastOp = "tick"
    /\ props.tubeLineData = Undefined /\ lineFetches = 1 /\ lineRejected
    /\ linePending = 0
    /\ props.tubeStationData \in InlineData /\ stationFetches = 0

\* C4 as stated: once a fetch of a dataset was rejected the dataset is null
\* and its layers are absent in every later state.
C4_RejectedStaysNull ==
    /\ lineRejected =>
          /\ tubeLines = Null
          /\ ~HasLayer(layers, "tube-lines-border")
          /\ ~HasLayer(layers, "tube-lines-main")
    /\ stationRejected =>
          /\ tubeStations = Null
          /\ ~HasLayer(layers, "tube-stations")

\* C4 as amended: a rejection changes neither the dataset nor the layer list
\* (a null dataset stays null, absent layers stay absent), issues no fetch and
\* lets no error out of the component.
C4_RejectionChangesNothing ==
    [][ /\ lastOp' = "rejectLines" =>
             /\ tubeLines' = tubeLines /\ tubeStations' = tubeStations
             /\ layers' = layers
             /\ lineFetches' = lineFetches /\ linePending' = linePending - 1
             /\ ~uncaught'
        /\ lastOp' = "rejectStations" =>
             /\ tubeLines' = tubeLines /\ tubeStations' = tubeStations
             /\ layers' = layers
             /\ stationFetches' = stationFetches
             /\ stationPending' = stationPending - 1
             /\ ~uncaught' ]_vars

C4_Witness ==
    /\ phase = "mounted"
    /\ lastOp = "rejectLines"
    /\ lineRejected /\ tubeLines = Null
    /\ ~HasLayer(layers, "tube-lines-main")
    /\ props.showTubeLines

\* C9 as stated: while a data prop is an inline dataset and the component is
\* mounted, the stored dataset is that inline dataset.
C9_InlineDataKept ==
    phase = "mounted" =>
        /\ Truthy(props.tubeLineData) => tubeLines = props.tubeLineData
        /\ Truthy(props.tubeStationData) => tubeStations = props.tubeStationData

(***************************************************************************)
(* Properties of the animation clock.                                      *)
(***************************************************************************)
AnimationIds(anims) == {a.id : a \in anims}

\* C5: at most one animation runs, it is the one of the last clock effect,
\* none runs after the unmount, and every update of the time value comes from
\* a running animation of a mounted component.
C5_StoppedNeverUpdates ==
    /\ Cardinality(running) <= 1
    /\ phase = "mounted" => AnimationIds(running) = {animation}
    /\ phase = "unmounted" => running = {}
    /\ lastOp = "tick" =>
          /\ phase = "mounted"
          /\ lastUpdater = animation
          /\ lastUpdater \in AnimationIds(running)

C5_Witness ==
    /\ phase = "unmounted"
    /\ lastUpdater = 1 /\ animation = 2
    /\ running = {}

C7_TableOrDefault ==
    pc = "colour" =>
        LET n == ToStr(FirstLineName(object))
        IN  /\ colour.t = "array"
            /\ Len(colour.v) = 4
            /\ \A i \in 1..4 : colour.v[i] \in 0..255
            /\ n = "Central" => colour.v = <<220, 36, 31, 100>>
            /\ n = "Northern" => colour.v = <<0, 0, 0, 255>>
            /\ n \in DOMAIN lineColours => colour.v = lineColours[n]
            /\ n \notin DOMAIN lineColours => colour.v = <<255, 255, 255, 10>>

IsPoint(obj) ==
    /\ ~Nullish(Get(obj, "geometry"))
    /\ Get(Get(obj, "geometry"), "type") = Str("Point")

\* the colour the text-colour accessor is to give a line name
TextColour(n) ==
    IF n = "Northern" THEN "rgb(255, 255, 255)"
    ELSE IF n \in DOMAIN lineColours
         THEN "rgb(" \o ToString(lineColours[n][1]) \o ", "
                \o ToString(lineColours[n][2]) \o ", "
                \o ToString(lineColours[n][3]) \o ")"
    ELSE "rgb(255, 255, 255)"

\* C8 as stated, for the hits on which getTooltip raises no error: a hit of
\* layer tube-lines-main on a feature that is not a Point and has lines gives
\* the line tooltip (name, opening year or N/A, line id); otherwise a Point
\* with a station name gives the station tooltip with one coloured span per
\* serving line; otherwise, and for a null feature, null.
C8_Classification ==
    (pc = "tooltip" /\ tooltip # TypeError) =>
        IF object = JsNull \/ ~ToBoolean(Get(object, "properties"))
        THEN tooltip = JsNull
        ELSE LET properties == Get(object, "properties")
                 lines == Get(properties, "lines")
             IN  IF owner = "tube-lines-main" /\ ToBoolean(lines) /\ ~IsPoint(object)
                 THEN /\ tooltip.t = "tooltip"
                      /\ tooltip.html.template = "line"
                      /\ tooltip.html.strong = ToStr(Get(At(lines, 0), "name"))
                      /\ tooltip.html.opened =
                            (IF Get(At(lines, 0), "opened") = JsUndefined
                             THEN "N/A" ELSE ToStr(Get(At(lines, 0), "opened")))
                      /\ tooltip.html.lineId = ToStr(Get(properties, "id"))
                 ELSE IF IsPoint(object) /\ ToBoolean(Get(properties, "name"))
                 THEN /\ tooltip.t = "tooltip"
                      /\ tooltip.html.template = "station"
                      /\ tooltip.html.strong = ToStr(Get(properties, "name"))
                      /\ Len(tooltip.html.spans) = Len(lines.v)
                      /\ \A i \in 1..Len(lines.v) :
                            /\ tooltip.html.spans[i].text = ToStr(Get(lines.v[i], "name"))
                            /\ tooltip.html.spans[i].color =
                                  TextColour(ToStr(Get(lines.v[i], "name")))
                 ELSE tooltip = JsNull

\* C10 as stated: getTooltip returns null or an {html, style} payload for
\* every layer id and hit object, and never raises an error.
C10_Total ==
    pc = "tooltip" =>
        /\ tooltip # TypeError
        /\ tooltip = JsNull \/ tooltip.t = "tooltip"

====
